---------------------------- MODULE Spec2Model ----------------------------
(* Model of the plan validator (schemas/plan_validator.py), the execution  *)
(* engine (executor/executor.py) and the analysis flow of app.py that      *)
(* calls validate_plan and then execute_plan.                              *)
(*                                                                         *)
(* Python values are encoded as follows.                                   *)
(*   - names (columns, operations, chart types, axis fields) are strings;  *)
(*     Python's None in a name-valued field is the reserved string None;   *)
(*   - a cell of the table, and a filter's scalar value, is a record       *)
(*     [t, s, n]: t = "str" with s the sequence of its characters,         *)
(*     t = "num" with n its value, t = "nan" for a missing number;         *)
(*   - a dict that may also be None (visualization, sort, user_intent) is  *)
(*     [k, d]: k = "none", or k = "dict" with d the function from its keys *)
(*     to its values.                                                      *)
EXTENDS Integers, Sequences, FiniteSets, TLC

VARIABLES df_columns, df, plan, plan_in, plan_v1, pc, error, working_df,
          original_filtered_df, agg_df, sorted_df, result_df, fig, y_axis,
          app_result

vars == <<df_columns, df, plan, plan_in, plan_v1, pc, error, working_df,
          original_filtered_df, agg_df, sorted_df, result_df, fig, y_axis,
          app_result>>

----------------------------------------------------------------------------
(* Bounds of the model.                                                    *)

MaxMetrics == 2
MaxFilters == 2
MaxRows == 2
MaxTopN == 2

----------------------------------------------------------------------------
(* Vocabularies of plan_validator.py.                                      *)

ALLOWED_ANALYSIS_TYPES ==
    {"comparison", "trend", "aggregation", "correlation", "distribution"}

ALLOWED_OPERATORS == {"==", "!=", ">", "<", ">=", "<=", "in"}

ALLOWED_METRICS == {"sum", "mean", "count", "min", "max", "median", "std"}

ALLOWED_VIZ_TYPES == {"bar", "line", "scatter", "histogram"}

INVALID_METRIC_OPERATIONS == {"bar", "line", "scatter", "histogram"}

required_keys ==
    <<"analysis_type", "filters", "group_by", "metrics", "sort",
      "visualization">>

----------------------------------------------------------------------------
(* Encoding of Python values.                                              *)

None == "None"

PyNone == [k |-> "none", d |-> <<>>]

Dict(f) == [k |-> "dict", d |-> f]

\* dict.get(key) of a dict whose values are names.
Get(o, key) == IF key \in DOMAIN o.d THEN o.d[key] ELSE None

\* Truthiness of a dict-or-None: None and {} are falsy.
Truthy(o) == o.k = "dict" /\ DOMAIN o.d # {}

Str(chars) == [t |-> "str", s |-> chars, n |-> 0]

Num(i) == [t |-> "num", s |-> <<>>, n |-> i]

NaN == [t |-> "nan", s |-> <<>>, n |-> 0]

\* A list value of a filter: its items are scalars.
List(items) == [t |-> "list", s |-> items, n |-> 0]

\* top_n values: None, an int, or a string such as "null".
TopNone == [t |-> "none", n |-> 0, s |-> ""]

TopInt(i) == [t |-> "int", n |-> i, s |-> ""]

TopStr(str) == [t |-> "str", n |-> 0, s |-> str]

TopNGet(o) == IF "top_n" \in DOMAIN o.d THEN o.d["top_n"] ELSE TopNone

Range(seq) == {seq[i] : i \in DOMAIN seq}

SeqsUpTo(S, n) == UNION {[1..k -> S] : k \in 0..n}

----------------------------------------------------------------------------
(* validate_plan.                                                          *)

Outcome(kind, p) == [err |-> kind, plan |-> p]

\* Lines 36-38: the first required key the plan lacks, or None.
RECURSIVE MissingKey(_, _)
MissingKey(p, i) ==
    IF i > Len(required_keys) THEN None
    ELSE IF required_keys[i] \notin DOMAIN p THEN required_keys[i]
    ELSE MissingKey(p, i + 1)

\* The filters loop without the check of the operator.
RECURSIVE FilterErrorNoOperatorCheck(_, _, _)
FilterErrorNoOperatorCheck(filters, cols, i) ==
    IF i > Len(filters) THEN "ok"
    ELSE LET f == filters[i] IN
         IF f.column \notin Range(cols) THEN "InvalidFilterColumn"
         ELSE IF f.operator = "in" /\ f.value.t # "list"
              THEN "InvalidOperatorValue"
         ELSE FilterErrorNoOperatorCheck(filters, cols, i + 1)

\* Lines 48-54: the first violation among the filters, in list order.
RECURSIVE FilterError(_, _, _)
FilterError(filters, cols, i) ==
    IF i > Len(filters) THEN "ok"
    ELSE LET f == filters[i] IN
         IF f.column \notin Range(cols) THEN "InvalidFilterColumn"
         ELSE IF f.operator \notin ALLOWED_OPERATORS THEN "InvalidOperator"
         ELSE IF f.operator = "in" /\ f.value.t # "list"
              THEN "InvalidOperatorValue"
         ELSE FilterError(filters, cols, i + 1)

\* Lines 59-61.
GroupByError(group_by, cols) ==
    IF \E i \in DOMAIN group_by : group_by[i] \notin Range(cols)
    THEN "InvalidGroupByColumn" ELSE "ok"

\* The metrics loop without the silent drop of chart-type operations: they
\* fall to the check of the statistical operations.
RECURSIVE CleanMetricsNoDrop(_, _, _, _)
CleanMetricsNoDrop(metrics, cols, i, acc) ==
    IF i > Len(metrics) THEN [err |-> "ok", cleaned |-> acc]
    ELSE LET m == metrics[i] IN
         IF m.operation \notin ALLOWED_METRICS
         THEN [err |-> "InvalidMetricOperation", cleaned |-> acc]
         ELSE IF m.column \notin Range(cols)
              THEN [err |-> "InvalidMetricColumn", cleaned |-> acc]
         ELSE CleanMetricsNoDrop(metrics, cols, i + 1, Append(acc, m))

\* Lines 66-84: the metrics loop; the cleaned list built so far is acc.
RECURSIVE CleanMetrics(_, _, _, _)
CleanMetrics(metrics, cols, i, acc) ==
    IF i > Len(metrics) THEN [err |-> "ok", cleaned |-> acc]
    ELSE LET m == metrics[i] IN
         IF m.operation \in INVALID_METRIC_OPERATIONS
         THEN CleanMetrics(metrics, cols, i + 1, acc)
         ELSE IF m.operation \notin ALLOWED_METRICS
              THEN [err |-> "InvalidMetricOperation", cleaned |-> acc]
         ELSE IF m.column \notin Range(cols)
              THEN [err |-> "InvalidMetricColumn", cleaned |-> acc]
         ELSE CleanMetrics(metrics, cols, i + 1, Append(acc, m))

\* Lines 102-104: the string nulls of x, y, color and top_n become None.
NormalizeNulls(d) ==
    [key \in DOMAIN d |->
        IF key \in {"x", "y", "color"}
        THEN (IF d[key] \in {"null", "NULL"} THEN None ELSE d[key])
        ELSE IF key = "top_n"
        THEN (IF d[key].t = "str" /\ d[key].s \in {"null", "NULL"}
              THEN TopNone ELSE d[key])
        ELSE d[key]]

\* Lines 112: does the auto-fix fire.
AutoFixFires(viz) == Get(viz, "y") \in ALLOWED_METRICS

\* Lines 114-117.
TargetCol(group_by, cols) ==
    IF Len(group_by) > 0 THEN group_by[1] ELSE cols[1]

\* Lines 112-124: the metric named in y is appended to the metrics and y
\* becomes the target column.
AutoFix(p, cols) ==
    LET viz == p["visualization"]
        target_col == TargetCol(p["group_by"], cols)
    IN  [p EXCEPT
           !["metrics"] = Append(@, [operation |-> Get(viz, "y"),
                                     column |-> target_col]),
           !["visualization"] =
               Dict([key \in DOMAIN viz.d |->
                       IF key = "y" THEN target_col ELSE viz.d[key]])]

\* Lines 129-155: the rules checked after the auto-fix.
VizRules(p, cols) ==
    LET viz == p["visualization"]
        type == viz.d["type"]
        x == Get(viz, "x")
        y == Get(viz, "y")
        top_n == TopNGet(viz)
    IN  IF type = "histogram" /\ y # None THEN "HistogramAxisConflict"
        ELSE IF type = "histogram" /\ x = None THEN "HistogramAxisConflict"
        ELSE IF p["analysis_type"] = "correlation" /\ type # "scatter"
             THEN "CorrelationAxisConflict"
        ELSE IF p["analysis_type"] = "correlation" /\ (x = None \/ y = None)
             THEN "CorrelationAxisConflict"
        ELSE IF x # None /\ x \notin Range(cols) THEN "InvalidAxis"
        ELSE IF y # None /\ y \notin Range(cols) THEN "InvalidAxis"
        ELSE IF top_n.t # "none" /\ (top_n.t # "int" \/ top_n.n <= 0)
             THEN "InvalidTopN"
        ELSE "ok"

\* Lines 97-157: the visualization part, on the plan with cleaned metrics.
ValidateViz(p, cols) ==
    LET viz == p["visualization"] IN
    IF ~Truthy(viz) THEN Outcome("ok", p)
    ELSE
    LET p1 == [p EXCEPT !["visualization"] = Dict(NormalizeNulls(viz.d))]
        viz1 == p1["visualization"]
    IN  IF "type" \notin DOMAIN viz1.d THEN Outcome("KeyError", p1)
        ELSE IF viz1.d["type"] \notin ALLOWED_VIZ_TYPES
             THEN Outcome("InvalidVisualizationType", p1)
        ELSE IF AutoFixFires(viz1) /\ Len(p1["group_by"]) = 0 /\ Len(cols) = 0
             THEN Outcome("IndexError", p1)
        ELSE LET p2 == IF AutoFixFires(viz1) THEN AutoFix(p1, cols) ELSE p1
             IN  Outcome(VizRules(p2, cols), p2)

\* validate_plan(plan, df_columns): the error raised ("ok" when it returns
\* True) and the plan object as the call leaves it.
validate_plan(p, cols) ==
    IF MissingKey(p, 1) # None THEN Outcome("MissingKey", p)
    ELSE IF p["analysis_type"] \notin ALLOWED_ANALYSIS_TYPES
         THEN Outcome("InvalidAnalysisType", p)
    ELSE IF FilterError(p["filters"], cols, 1) # "ok"
         THEN Outcome(FilterError(p["filters"], cols, 1), p)
    ELSE IF GroupByError(p["group_by"], cols) # "ok"
         THEN Outcome(GroupByError(p["group_by"], cols), p)
    ELSE
    LET c == CleanMetrics(p["metrics"], cols, 1, <<>>) IN
    IF c.err # "ok" THEN Outcome(c.err, p)
    ELSE
    LET p1 == [p EXCEPT !["metrics"] = c.cleaned] IN
    IF p1["analysis_type"] \in {"distribution", "correlation"}
       /\ Len(p1["metrics"]) > 0
    THEN Outcome("AnalysisTypeMetricConflict", p1)
    ELSE ValidateViz(p1, cols)

----------------------------------------------------------------------------
(* Tables and cells.  A table is [cols, dtype, rows]: the column names in  *)
(* order, the dtype of each column ("object" for text, "num" for int64 or  *)
(* float64) and the rows, each a function from the column names to cells.  *)

Digits == <<"0", "1", "2", "3", "4", "5", "6", "7", "8", "9">>

IsDigit(ch) == \E i \in DOMAIN Digits : Digits[i] = ch

DigitValue(ch) == (CHOOSE i \in DOMAIN Digits : Digits[i] = ch) - 1

\* str(n) of a non-negative integer.
RECURSIVE IntToChars(_)
IntToChars(n) ==
    IF n < 10 THEN <<Digits[n + 1]>>
    ELSE Append(IntToChars(n \div 10), Digits[(n % 10) + 1])

\* series.astype(str) on one cell.
AsTypeStr(c) ==
    IF c.t = "str" THEN c.s
    ELSE IF c.t = "num" THEN IntToChars(c.n)
    ELSE <<"n", "a", "n">>

\* str.replace("%", "", regex=False).
RemovePercent(chars) == SelectSeq(chars, LAMBDA ch : ch # "%")

\* str.strip(): leading and trailing blanks removed.
RECURSIVE LStrip(_)
LStrip(chars) ==
    IF Len(chars) > 0 /\ chars[1] = " " THEN LStrip(Tail(chars)) ELSE chars

RECURSIVE RStrip(_)
RStrip(chars) ==
    IF Len(chars) > 0 /\ chars[Len(chars)] = " "
    THEN RStrip(SubSeq(chars, 1, Len(chars) - 1)) ELSE chars

Strip(chars) == RStrip(LStrip(chars))

RECURSIVE DigitsToInt(_)
DigitsToInt(chars) ==
    IF Len(chars) = 0 THEN 0
    ELSE 10 * DigitsToInt(SubSeq(chars, 1, Len(chars) - 1))
         + DigitValue(chars[Len(chars)])

\* pd.to_numeric(errors="coerce") on one string: a run of digits parses,
\* anything else is NaN.
ToNumeric(chars) ==
    IF Len(chars) > 0 /\ \A i \in DOMAIN chars : IsDigit(chars[i])
    THEN Num(DigitsToInt(chars)) ELSE NaN

\* _coerce_numeric on one cell.
CoerceCell(c) == ToNumeric(Strip(RemovePercent(AsTypeStr(c))))

\* _coerce_numeric(working_df[col]) assigned back to the column.
_coerce_numeric(t, col) ==
    [t EXCEPT !.dtype = [@ EXCEPT ![col] = "num"],
              !.rows = [i \in DOMAIN t.rows |->
                          [t.rows[i] EXCEPT ![col] = CoerceCell(@)]]]

\* float(val) of line 42: a number, or "error" where Python raises
\* (a string that is no number once stripped, or a list).
Float(val) ==
    IF val.t = "num" THEN val
    ELSE IF val.t = "str" /\ ToNumeric(Strip(val.s)).t = "num"
         THEN ToNumeric(Strip(val.s))
    ELSE [t |-> "error", s |-> <<>>, n |-> 0]

\* Elementwise == of a cell and a scalar: a number never equals a string
\* and NaN equals nothing.
CellEq(c, v) == c.t = v.t /\ c.t # "nan" /\ c = v

\* Elementwise relational comparison of a coerced cell and a float.
CellRel(op, c, v) ==
    /\ c.t = "num"
    /\ CASE op = ">" -> c.n > v.n
         [] op = "<" -> c.n < v.n
         [] op = ">=" -> c.n >= v.n
         [] op = "<=" -> c.n <= v.n

\* The rows at the positions where the boolean mask holds, in order.
SelectRows(rows, mask) ==
    LET kept == SelectSeq([i \in DOMAIN rows |-> i], LAMBDA i : mask[i])
    IN  [k \in DOMAIN kept |-> rows[kept[k]]]

Ok(t) == [err |-> "ok", df |-> t]

Raise(kind, t) == [err |-> kind, df |-> t]

\* Lines 30-59: one filter applied to working_df.  No value of the model
\* is a string in brackets, so lines 34-38 leave val as it is.
ApplyFilter(t, f) ==
    LET col == f.column
        op == f.operator
        val == f.value
        rel == op \in {">", "<", ">=", "<="}
    IN
    IF rel /\ Float(val).t = "error" THEN Raise("ValueError", _coerce_numeric(t, col))
    ELSE
    LET w == IF rel THEN _coerce_numeric(t, col) ELSE t
        v == IF rel THEN Float(val) ELSE val
        cell(i) == w.rows[i][col]
    IN
    IF op \in {"==", "!="} /\ v.t = "list" /\ Len(v.s) # Len(w.rows)
    THEN Raise("ValueError", w)
    ELSE
    LET eq(i) == IF v.t = "list" THEN CellEq(cell(i), v.s[i])
                 ELSE CellEq(cell(i), v)
        items == IF v.t = "list" THEN v.s ELSE <<v>>
        keep(i) ==
            CASE op = "==" -> eq(i)
              [] op = "!=" -> ~eq(i)
              [] rel -> CellRel(op, cell(i), v)
              [] op = "in" -> \E j \in DOMAIN items : CellEq(cell(i), items[j])
              [] OTHER -> TRUE
    IN  Ok([w EXCEPT !.rows = SelectRows(w.rows, [i \in DOMAIN w.rows |-> keep(i)])])

\* Lines 29-59: the filters applied in list order.
RECURSIVE ApplyFilters(_, _, _)
ApplyFilters(t, filters, i) ==
    IF i > Len(filters) THEN Ok(t)
    ELSE LET r == ApplyFilter(t, filters[i]) IN
         IF r.err # "ok" THEN r ELSE ApplyFilters(r.df, filters, i + 1)

----------------------------------------------------------------------------
(* Ordering of cells, as pandas orders the values of one column.           *)

CharOrder ==
    <<" ", "%", "0", "1", "2", "3", "4", "5", "6", "7", "8", "9",
      "a", "b", "c", "d", "e", "f", "g", "h", "i", "j", "k", "l", "m",
      "n", "o", "p", "q", "r", "s", "t", "u", "v", "w", "x", "y", "z">>

CharRank(ch) == CHOOSE i \in DOMAIN CharOrder : CharOrder[i] = ch

RECURSIVE CharsLess(_, _)
CharsLess(a, b) ==
    IF Len(b) = 0 THEN FALSE
    ELSE IF Len(a) = 0 THEN TRUE
    ELSE IF a[1] = b[1] THEN CharsLess(Tail(a), Tail(b))
    ELSE CharRank(a[1]) < CharRank(b[1])

\* a < b for two cells of one column; NaN is less than nothing.
CellLess(a, b) ==
    IF a.t = "num" /\ b.t = "num" THEN a.n < b.n
    ELSE IF a.t = "str" /\ b.t = "str" THEN CharsLess(a.s, b.s)
    ELSE FALSE

\* Stable sort of seq by a strict order given on the positions, before[i, j]
\* telling that seq[i] sorts before seq[j]: the element at position i comes
\* after those that are before it and after its equals on its left.
StableSort(seq, before) ==
    LET rank(i) ==
            Cardinality({j \in DOMAIN seq :
                           \/ before[j, i]
                           \/ (~before[i, j] /\ j < i)}) + 1
    IN  [k \in DOMAIN seq |-> seq[CHOOSE i \in DOMAIN seq : rank(i) = k]]

\* The order of the positions of seq that the order less of its elements
\* gives.
CellOrder(seq) ==
    [i \in DOMAIN seq, j \in DOMAIN seq |-> CellLess(seq[i], seq[j])]

\* seq without the later copies of its elements (first occurrences kept).
RECURSIVE Dedup(_)
Dedup(seq) ==
    IF Len(seq) = 0 THEN <<>>
    ELSE LET front == Dedup(SubSeq(seq, 1, Len(seq) - 1)) IN
         IF seq[Len(seq)] \in Range(front) THEN front
         ELSE Append(front, seq[Len(seq)])

----------------------------------------------------------------------------
(* Aggregation (pandas groupby/agg).  Numbers are modelled on the integers: *)
(* mean, median and std are rounded down to an integer.                    *)

RECURSIVE SumN(_)
SumN(cells) == IF Len(cells) = 0 THEN 0 ELSE cells[1].n + SumN(Tail(cells))

RECURSIVE Concat(_)
Concat(cells) ==
    IF Len(cells) = 0 THEN <<>> ELSE cells[1].s \o Concat(Tail(cells))

ISqrt(n) == CHOOSE r \in 0..n : r * r <= n /\ (r + 1) * (r + 1) > n

RECURSIVE SumSqDev(_, _, _)
SumSqDev(cells, total, cnt) ==
    IF Len(cells) = 0 THEN 0
    ELSE (cnt * cells[1].n - total) * (cnt * cells[1].n - total)
         + SumSqDev(Tail(cells), total, cnt)

\* One aggregation of the cells of a group: the cell it yields, or a cell
\* with t = "error" where pandas raises (mean, median, std of text).
Aggregate(op, dtype, cells) ==
    LET vals == SelectSeq(cells, LAMBDA c : c.t # "nan")
        sorted == StableSort(vals, CellOrder(vals))
        cnt == Len(vals)
        text == dtype = "object"
        err == [t |-> "error", s |-> <<>>, n |-> 0]
    IN  CASE op = "count" -> Num(cnt)
          [] op = "sum" -> IF text THEN Str(Concat(vals)) ELSE Num(SumN(vals))
          [] op = "min" -> IF cnt = 0 THEN NaN ELSE sorted[1]
          [] op = "max" -> IF cnt = 0 THEN NaN ELSE sorted[cnt]
          [] op = "mean" ->
                IF text THEN err
                ELSE IF cnt = 0 THEN NaN ELSE Num(SumN(vals) \div cnt)
          [] op = "median" ->
                IF text THEN err
                ELSE IF cnt = 0 THEN NaN
                ELSE IF cnt % 2 = 1 THEN sorted[(cnt + 1) \div 2]
                ELSE Num((sorted[cnt \div 2].n + sorted[cnt \div 2 + 1].n)
                         \div 2)
          [] op = "std" ->
                IF text THEN err
                ELSE IF cnt < 2 THEN NaN
                ELSE Num(ISqrt(SumSqDev(vals, SumN(vals), cnt)
                               \div (cnt * cnt * (cnt - 1))))

\* The dtype of an aggregated column.
AggDtype(op, dtype) == IF op \in {"sum", "min", "max"} THEN dtype ELSE "num"

\* Lines 91-101: the aggregation map as the list of its (column, operation)
\* items in insertion order; a later metric on the same column replaces the
\* operation and keeps the position.
RECURSIVE agg_map(_, _, _)
agg_map(metrics, group_by, i) ==
    IF i = 0 THEN <<>>
    ELSE LET prev == agg_map(metrics, group_by, i - 1)
             m == metrics[i]
         IN  IF m.column \in Range(group_by) THEN prev
             ELSE IF \E j \in DOMAIN prev : prev[j].column = m.column
                  THEN [j \in DOMAIN prev |->
                          IF prev[j].column = m.column THEN m ELSE prev[j]]
             ELSE Append(prev, m)

\* The key of a row: its cells in the group_by columns.
KeyOf(row, group_by) == [i \in DOMAIN group_by |-> row[group_by[i]]]

RECURSIVE KeyLess(_, _)
KeyLess(a, b) ==
    IF Len(a) = 0 THEN FALSE
    ELSE IF a[1] = b[1] THEN KeyLess(Tail(a), Tail(b))
    ELSE CellLess(a[1], b[1])

\* Lines 104-108: groupby(group_by, as_index=False).agg(agg_map).  Rows with
\* a NaN key are dropped and the groups come in key order.
GroupAgg(t, group_by, amap) ==
    LET rows == SelectSeq(t.rows,
                   LAMBDA r : \A i \in DOMAIN group_by : r[group_by[i]].t # "nan")
        allkeys == [i \in DOMAIN rows |-> KeyOf(rows[i], group_by)]
        distinct == Dedup(allkeys)
        keys == StableSort(distinct,
                           [i \in DOMAIN distinct, j \in DOMAIN distinct |->
                               KeyLess(distinct[i], distinct[j])])
        cols == group_by \o [j \in DOMAIN amap |-> amap[j].column]
        opOf(col) == (CHOOSE j \in DOMAIN amap : amap[j].column = col)
        members(key) == SelectSeq(rows, LAMBDA r : KeyOf(r, group_by) = key)
        cellsOf(key, col) ==
            [i \in DOMAIN members(key) |-> members(key)[i][col]]
        out == [g \in DOMAIN keys |->
                 [col \in Range(cols) |->
                    IF col \in Range(group_by)
                    THEN keys[g][CHOOSE i \in DOMAIN group_by :
                                    group_by[i] = col]
                    ELSE Aggregate(amap[opOf(col)].operation, t.dtype[col],
                                   cellsOf(keys[g], col))]]
        dtype == [col \in Range(cols) |->
                    IF col \in Range(group_by) THEN t.dtype[col]
                    ELSE AggDtype(amap[opOf(col)].operation, t.dtype[col])]
    IN  IF \E j \in DOMAIN amap :
              amap[j].operation \in {"mean", "median", "std"}
              /\ t.dtype[amap[j].column] = "object"
        THEN Raise("TypeError", t)
        ELSE Ok([cols |-> cols, dtype |-> dtype, rows |-> out])

\* Line 110: working_df[group_by].drop_duplicates().
DistinctKeys(t, group_by) ==
    LET proj == [i \in DOMAIN t.rows |->
                   [col \in Range(group_by) |-> t.rows[i][col]]]
    IN  [cols |-> group_by,
         dtype |-> [col \in Range(group_by) |-> t.dtype[col]],
         rows |-> Dedup(proj)]

\* Lines 77-84: the count-only case.
CountOnly(t, count_col) ==
    LET vals == {t.rows[i][count_col] : i \in DOMAIN t.rows}
        n == IF t.dtype[count_col] # "object" THEN Len(t.rows)
             ELSE Cardinality({v \in vals : v.t # "nan"})
    IN  [cols |-> <<"count">>,
         dtype |-> [col \in {"count"} |-> "num"],
         rows |-> <<[col \in {"count"} |-> Num(n)]>>]

\* Lines 66-113: the aggregation stage.
AggregationStage(t, metrics, group_by) ==
    IF Len(group_by) = 0 /\ Len(metrics) = 1
       /\ metrics[1].operation = "count"
    THEN Ok(CountOnly(t, metrics[1].column))
    ELSE IF Len(group_by) > 0
    THEN LET amap == agg_map(metrics, group_by, Len(metrics)) IN
         IF Len(amap) > 0 THEN GroupAgg(t, group_by, amap)
         ELSE Ok(DistinctKeys(t, group_by))
    ELSE Ok(t)

----------------------------------------------------------------------------
(* Sorting, top-N and the chart of execute_plan.                           *)

\* Truthiness of a name: None and the empty string are falsy.
TruthyName(v) == v # None /\ v # ""

\* Lines 118-125: sort_values(by=by_col, ascending=...), NaN last.
SortStage(t, sort_cfg) ==
    LET by_col == Get(sort_cfg, "by")
        ascending == ("order" \notin DOMAIN sort_cfg.d)
                     \/ sort_cfg.d["order"] = "asc"
        before(a, b) ==
            IF a[by_col].t = "nan" THEN FALSE
            ELSE IF b[by_col].t = "nan" THEN TRUE
            ELSE IF ascending THEN CellLess(a[by_col], b[by_col])
            ELSE CellLess(b[by_col], a[by_col])
    IN  IF Truthy(sort_cfg) /\ TruthyName(by_col) /\ by_col \in Range(t.cols)
        THEN [t EXCEPT !.rows =
                 StableSort(t.rows,
                            [i \in DOMAIN t.rows, j \in DOMAIN t.rows |->
                                before(t.rows[i], t.rows[j])])]
        ELSE t

\* DataFrame.head(n) for n > 0.
head(t, n) ==
    [t EXCEPT !.rows = SubSeq(t.rows, 1, IF n < Len(t.rows) THEN n
                                         ELSE Len(t.rows))]

\* Line 134 without the test of the focus.
TruncatesWhateverFocus(user_intent, top_n) == top_n.t = "int" /\ top_n.n # 0

\* Line 134: is the table truncated.
Truncates(user_intent, top_n) ==
    Get(user_intent, "focus") # "both" /\ top_n.t = "int" /\ top_n.n # 0

\* Lines 130-135: the top-N stage; viz.get and user_intent.get raise
\* AttributeError on None.
TopNStage(t, viz, user_intent) ==
    IF viz.k = "none" \/ user_intent.k = "none" THEN Raise("AttributeError", t)
    ELSE IF Truncates(user_intent, TopNGet(viz))
         THEN Ok(head(t, TopNGet(viz).n))
    ELSE Ok(t)

\* Lines 147-151: y as given, else the column of the first metric that is a
\* column of the result, else None.
RECURSIVE FirstMetricColumn(_, _, _)
FirstMetricColumn(metrics, cols, i) ==
    IF i > Len(metrics) THEN None
    ELSE IF metrics[i].column \in Range(cols) THEN metrics[i].column
    ELSE FirstMetricColumn(metrics, cols, i + 1)

ResolveY(viz, metrics, cols) ==
    IF Get(viz, "y") = None /\ Len(metrics) > 0
    THEN FirstMetricColumn(metrics, cols, 1)
    ELSE Get(viz, "y")

NoFig == [type |-> None, x |-> None, y |-> None, color |-> None]

\* Lines 142-166: the chart, or the error raised: line 154 for a y that is
\* no column of the result, plotly express for an x or a color that is none.
VisualizationStage(t, viz, metrics) ==
    IF ~(Truthy(viz) /\ TruthyName(Get(viz, "type")))
    THEN [err |-> "ok", fig |-> NoFig, y |-> None]
    ELSE
    LET viz_type == Get(viz, "type")
        x == Get(viz, "x")
        y == ResolveY(viz, metrics, t.cols)
        color == Get(viz, "color")
        xy == viz_type \in {"bar", "line", "scatter"}
              /\ TruthyName(x) /\ TruthyName(y)
        hist == viz_type = "histogram" /\ TruthyName(x)
    IN  IF TruthyName(y) /\ y \notin Range(t.cols)
        THEN [err |-> "InvalidYAxis", fig |-> NoFig, y |-> y]
        ELSE IF (xy \/ hist)
                /\ (x \notin Range(t.cols)
                    \/ (color # None /\ color \notin Range(t.cols)))
             THEN [err |-> "PlotlyError", fig |-> NoFig, y |-> y]
        ELSE IF xy
             THEN [err |-> "ok", y |-> y,
                   fig |-> [type |-> viz_type, x |-> x, y |-> y,
                            color |-> color]]
        ELSE IF hist
             THEN [err |-> "ok", y |-> y,
                   fig |-> [type |-> viz_type, x |-> x, y |-> None,
                            color |-> color]]
        ELSE [err |-> "ok", fig |-> NoFig, y |-> y]

----------------------------------------------------------------------------
(* The analysis flow of app.py: validate_plan, then execute_plan stage by  *)
(* stage, then the result handed to the page or the exception caught.      *)

NoTable == [cols |-> <<>>, dtype |-> <<>>, rows |-> <<>>]

NotDelivered == [delivered |-> FALSE, table |-> NoTable]

\* plan.get("user_intent", {}).
UserIntent(p) ==
    IF "user_intent" \in DOMAIN p THEN p["user_intent"] ELSE Dict(<<>>)

\* app.py line 180: validate_plan(plan, list(df.columns)).
Validate ==
    /\ pc = "start"
    /\ LET out == validate_plan(plan, df_columns) IN
       /\ plan' = out.plan
       /\ plan_v1' = out.plan
       /\ error' = out.err
       /\ pc' = IF out.err = "ok" THEN "validated" ELSE "invalid"
    /\ UNCHANGED <<df_columns, df, plan_in, working_df, original_filtered_df,
                   agg_df, sorted_df, result_df, fig, y_axis, app_result>>

\* validate_plan called again on the plan it has normalized.
Revalidate ==
    /\ pc = "validated"
    /\ LET out == validate_plan(plan, df_columns) IN
       /\ plan' = out.plan
       /\ error' = out.err
       /\ pc' = "revalidated"
    /\ UNCHANGED <<df_columns, df, plan_in, plan_v1, working_df,
                   original_filtered_df, agg_df, sorted_df, result_df, fig,
                   y_axis, app_result>>

\* execute_plan lines 23-61.
DoFilters ==
    /\ pc = "validated"
    /\ LET out == ApplyFilters(df, plan["filters"], 1) IN
       /\ working_df' = out.df
       /\ original_filtered_df' = IF out.err = "ok" THEN out.df
                                  ELSE original_filtered_df
       /\ error' = out.err
       /\ pc' = IF out.err = "ok" THEN "filtered" ELSE "raised"
    /\ UNCHANGED <<df_columns, df, plan, plan_in, plan_v1, agg_df, sorted_df,
                   result_df, fig, y_axis, app_result>>

\* execute_plan lines 66-113.
DoAggregate ==
    /\ pc = "filtered"
    /\ LET out == AggregationStage(working_df, plan["metrics"],
                                   plan["group_by"]) IN
       /\ agg_df' = IF out.err = "ok" THEN out.df ELSE agg_df
       /\ error' = out.err
       /\ pc' = IF out.err = "ok" THEN "aggregated" ELSE "raised"
    /\ UNCHANGED <<df_columns, df, plan, plan_in, plan_v1, working_df,
                   original_filtered_df, sorted_df, result_df, fig, y_axis,
                   app_result>>

\* execute_plan lines 118-125.
DoSort ==
    /\ pc = "aggregated"
    /\ sorted_df' = SortStage(agg_df, plan["sort"])
    /\ pc' = "sorted"
    /\ UNCHANGED <<df_columns, df, plan, plan_in, plan_v1, error, working_df,
                   original_filtered_df, agg_df, result_df, fig, y_axis,
                   app_result>>

\* execute_plan lines 130-135.
DoTopN ==
    /\ pc = "sorted"
    /\ LET out == TopNStage(sorted_df, plan["visualization"],
                            UserIntent(plan)) IN
       /\ result_df' = out.df
       /\ error' = out.err
       /\ pc' = IF out.err = "ok" THEN "truncated" ELSE "raised"
    /\ UNCHANGED <<df_columns, df, plan, plan_in, plan_v1, working_df,
                   original_filtered_df, agg_df, sorted_df, fig, y_axis,
                   app_result>>

\* execute_plan lines 140-168: the chart, then the return of the tuple.
DoVisualize ==
    /\ pc = "truncated"
    /\ LET out == VisualizationStage(result_df, plan["visualization"],
                                     plan["metrics"]) IN
       /\ fig' = out.fig
       /\ y_axis' = out.y
       /\ error' = out.err
       /\ pc' = IF out.err = "ok" THEN "returned" ELSE "raised"
    /\ UNCHANGED <<df_columns, df, plan, plan_in, plan_v1, working_df,
                   original_filtered_df, agg_df, sorted_df, result_df,
                   app_result>>

\* app.py line 183: the tuple execute_plan returned is bound.
AppDeliver ==
    /\ pc = "returned"
    /\ app_result' = [delivered |-> TRUE, table |-> result_df]
    /\ pc' = "done"
    /\ UNCHANGED <<df_columns, df, plan, plan_in, plan_v1, error, working_df,
                   original_filtered_df, agg_df, sorted_df, result_df, fig,
                   y_axis>>

\* app.py lines 249-251: an exception of validate_plan or execute_plan ends
\* the flow in the error display; nothing was bound at line 183.
AppCatch ==
    /\ pc \in {"invalid", "raised"}
    /\ pc' = "error_shown"
    /\ UNCHANGED <<df_columns, df, plan, plan_in, plan_v1, error, working_df,
                   original_filtered_df, agg_df, sorted_df, result_df, fig,
                   y_axis, app_result>>

Next ==
    \/ Validate
    \/ Revalidate
    \/ DoFilters
    \/ DoAggregate
    \/ DoSort
    \/ DoTopN
    \/ DoVisualize
    \/ AppDeliver
    \/ AppCatch

----------------------------------------------------------------------------
(* Inputs: the uploaded table and the plan the planner produced.           *)

Schema == <<"count", "region", "discount">>

Dtypes == [col \in Range(Schema) |-> IF col = "count" THEN "num" ELSE "object"]

Row(region, count, discount) ==
    [col \in Range(Schema) |->
        CASE col = "region" -> Str(region)
          [] col = "count" -> Num(count)
          [] col = "discount" -> Str(discount)]

\* The DataFrame of a list of rows: each row keeps its index label in the
\* cell "_index", which is no column.
MkTable(rows) ==
    [cols |-> Schema,
     dtype |-> Dtypes,
     rows |-> [i \in DOMAIN rows |->
                 [key \in Range(Schema) \cup {"_index"} |->
                    IF key = "_index" THEN Num(i - 1) ELSE rows[i][key]]]]

BaseTable ==
    MkTable(<<Row(<<"e">>, 5, <<"1", "5", "%">>),
              Row(<<"w">>, 15, <<"5", "%">>),
              Row(<<"e">>, 15, <<" ", "5">>),
              Row(<<"w">>, 5, <<"x">>)>>)

Metric(op, col) == [operation |-> op, column |-> col]

Filter(col, op, val) == [column |-> col, operator |-> op, value |-> val]

Plan(at, fl, gb, ms, so, vz) ==
    [analysis_type |-> at, filters |-> fl, group_by |-> gb, metrics |-> ms,
     sort |-> so, visualization |-> vz]

Viz(type, x, y, top_n) ==
    Dict([type |-> type, x |-> x, y |-> y, color |-> None, top_n |-> top_n])

WithIntent(p, ui) == p @@ ("user_intent" :> ui)

Without(p, key) == [k \in DOMAIN p \ {key} |-> p[k]]

\* The state when the Analyze button is pressed with plan p on table t.
Start(p, t) ==
    /\ df_columns = t.cols
    /\ df = t
    /\ plan = p
    /\ plan_in = p
    /\ plan_v1 = p
    /\ pc = "start"
    /\ error = "ok"
    /\ working_df = t
    /\ original_filtered_df = NoTable
    /\ agg_df = NoTable
    /\ sorted_df = NoTable
    /\ result_df = NoTable
    /\ fig = NoFig
    /\ y_axis = None
    /\ app_result = NotDelivered

\* Plans that vary in the metrics, the group-by and the visualization.
MetricsV ==
    {Metric("sum", "count"), Metric("mean", "region"),
     Metric("bar", "bogus"), Metric("avg", "count"),
     Metric("sum", "bogus")}

VizV ==
    {PyNone, Dict(<<>>), Dict([x |-> "region"]),
     Viz("pie", "region", "count", TopNone),
     Viz("bar", "region", None, TopInt(0)),
     Viz("bar", "region", "discount", TopStr("null")),
     Viz("bar", "bogus", None, TopInt(2))}
    \cup {Viz(type, x, y, TopNone) :
            type \in {"bar", "scatter", "histogram"},
            x \in {None, "region"},
            y \in {None, "mean", "count", "NULL", "bogus"}}

InitValidate ==
    \E at \in {"aggregation", "correlation", "distribution"},
       gb \in {<<>>, <<"region">>, <<"count">>, <<"region", "count">>},
       ms \in SeqsUpTo(MetricsV, MaxMetrics),
       vz \in VizV :
        Start(Plan(at, <<>>, gb, ms, PyNone, vz), BaseTable)

Spec == InitValidate /\ [][Next]_vars

\* Plans that vary in the required keys, the analysis type and the filters,
\* over a few settings of the other fields.
FiltersK ==
    {Filter("region", "==", Str(<<"e">>)),
     Filter("region", "like", Str(<<"e">>)),
     Filter("bogus", "like", Str(<<"e">>)),
     Filter("bogus", ">", Num(1)),
     Filter("count", "in", Num(5)),
     Filter("count", "in", List(<<Num(5)>>))}

InitErrors ==
    \E missing \in {None} \cup Range(required_keys),
       at \in {"aggregation", "forecast"},
       fl \in SeqsUpTo(FiltersK, MaxFilters),
       gb \in {<<>>, <<"bogus">>},
       ms \in {<<>>, <<Metric("avg", "count")>>, <<Metric("bar", "count")>>},
       vz \in {PyNone, Dict(<<>>), Viz("bar", "region", "count", TopNone),
               Viz("pie", "region", "count", TopNone)} :
        Start(Without(Plan(at, fl, gb, ms, PyNone, vz), missing), BaseTable)

SpecErrors == InitErrors /\ [][Next]_vars

\* Tables and filters that vary, with the rest of the plan fixed.
RowsF ==
    {Row(<<"e">>, count, discount) :
        count \in {5, 15},
        discount \in {<<"1", "5", "%">>, <<"5", "%">>, <<" ", "5">>, <<"x">>}}

FiltersF ==
    {Filter("discount", ">", Num(10)),
     Filter("discount", ">", Str(<<"1", "0", "%">>)),
     Filter("discount", "==", Str(<<"1", "5", "%">>)),
     Filter("discount", "!=", Str(<<"5", "%">>)),
     Filter("discount", "in", List(<<Str(<<"1", "5", "%">>), Str(<<"x">>)>>)),
     Filter("count", "<=", Str(<<" ", "5">>)),
     Filter("count", "==", Num(15))}

InitFilters ==
    \E rows \in SeqsUpTo(RowsF, MaxRows),
       fl \in SeqsUpTo(FiltersF, MaxFilters) :
        Start(Plan("aggregation", fl, <<>>, <<>>, PyNone, Dict(<<>>)),
              MkTable(rows))

SpecFilters == InitFilters /\ [][Next]_vars

\* Plans that vary in what execute_plan aggregates, sorts, truncates and
\* charts, on the fixed table.
MetricsE ==
    {Metric("sum", "count"), Metric("count", "discount"),
     Metric("max", "region")}

SortsE ==
    {PyNone, Dict([by |-> "count", order |-> "desc"]),
     Dict([by |-> "region"])}

VizE ==
    {PyNone, Dict(<<>>)}
    \cup {Viz(type, x, y, top_n) :
            type \in {"bar", "scatter"},
            x \in {"region"},
            y \in {None, "count", "discount"},
            top_n \in {TopNone} \cup {TopInt(n) : n \in 1..MaxTopN}}

\* The plan has no user_intent key.
Absent == [k |-> "absent", d |-> <<>>]

IntentsE == {Dict([focus |-> "both"]), Dict([focus |-> "highest"])}

InitExecute ==
    \E gb \in {<<>>, <<"region">>, <<"region", "discount">>},
       ms \in SeqsUpTo(MetricsE, MaxMetrics),
       so \in SortsE,
       vz \in VizE,
       ui \in {Absent} \cup IntentsE :
        Start(IF ui = Absent
              THEN Plan("aggregation", <<>>, gb, ms, so, vz)
              ELSE WithIntent(Plan("aggregation", <<>>, gb, ms, so, vz), ui),
              BaseTable)

SpecExecute == InitExecute /\ [][Next]_vars

----------------------------------------------------------------------------
(* Claims about validate_plan.                                             *)

Accepted == pc = "validated"

\* The metrics of the input plan that cleaning keeps: those whose operation
\* is no chart-type name.
KeptFromInput ==
    SelectSeq(plan_in["metrics"],
              LAMBDA m : m.operation \notin INVALID_METRIC_OPERATIONS)

\* C1: on every accepted plan, the normalized plan has no metric whose
\* column is one of its group_by columns.
C1_NoMetricOnGroupByColumn ==
    Accepted =>
        \A i \in DOMAIN plan["metrics"] :
            plan["metrics"][i].column \notin Range(plan["group_by"])

\* C2: validating the normalized plan again with the same columns succeeds
\* and leaves the plan as the first validation left it.
C2_Idempotent ==
    pc = "revalidated" => error = "ok" /\ plan = plan_v1

\* C3: an accepted plan of a distribution or correlation analysis has no
\* metrics when validate_plan returns.
C3_NoMetricsForDistributionCorrelation ==
    Accepted /\ plan["analysis_type"] \in {"distribution", "correlation"}
        => plan["metrics"] = <<>>

\* C4: a metric with a chart-type operation changes nothing in the outcome
\* of validate_plan (the same error or success, and on success the same
\* plan, as without that metric); after success every operation is a
\* statistical one, the metrics kept from the input come first in their
\* original order, and every column is a column of the table.
C4_MetricCleaning ==
    /\ pc \in {"validated", "invalid"} =>
          LET without == validate_plan(
                             [plan_in EXCEPT !["metrics"] = KeptFromInput],
                             df_columns)
          IN  /\ without.err = error
              /\ error = "ok" => without.plan = plan
    /\ Accepted =>
          /\ \A i \in DOMAIN plan["metrics"] :
                /\ plan["metrics"][i].operation \in ALLOWED_METRICS
                /\ plan["metrics"][i].operation \notin INVALID_METRIC_OPERATIONS
                /\ plan["metrics"][i].column \in Range(df_columns)
          /\ Len(plan["metrics"]) >= Len(KeptFromInput)
          /\ SubSeq(plan["metrics"], 1, Len(KeptFromInput)) = KeptFromInput

\* C4 witness: a plan was accepted whose input had a chart-type metric,
\* which is gone, beside a metric that was kept.
C4_Witness ==
    /\ Accepted
    /\ \E i \in DOMAIN plan_in["metrics"] :
          plan_in["metrics"][i].operation \in INVALID_METRIC_OPERATIONS
    /\ Len(KeptFromInput) >= 1
    /\ Len(plan["metrics"]) < Len(plan_in["metrics"])

\* Filter i of the input plan has an operator outside the closed set.
BadOperator(i) == plan_in["filters"][i].operator \notin ALLOWED_OPERATORS

\* Filter i of the input plan passes the three checks of the filters loop.
FilterValid(i) ==
    LET f == plan_in["filters"][i] IN
    /\ f.column \in Range(df_columns)
    /\ f.operator \in ALLOWED_OPERATORS
    /\ f.operator = "in" => f.value.t = "list"

Validated == pc \in {"validated", "invalid"}

\* C5 as stated: a plan with a filter whose operator is outside the closed
\* set fails with InvalidOperator, whatever its other fields are.
C5_AlwaysInvalidOperator ==
    Validated /\ "filters" \in DOMAIN plan_in
    /\ (\E i \in DOMAIN plan_in["filters"] : BadOperator(i))
        => pc = "invalid" /\ error = "InvalidOperator"

\* C5 amended: such a plan always fails, and it fails with InvalidOperator
\* when nothing earlier in step order is violated: every required key is
\* present, the analysis type is allowed, the filters before the offending
\* one are valid and the offending filter's column is a column of the table.
C5_InvalidOperatorWhenFirst ==
    Validated /\ "filters" \in DOMAIN plan_in =>
        \A i \in DOMAIN plan_in["filters"] :
            BadOperator(i) =>
                /\ pc = "invalid"
                /\ (/\ MissingKey(plan_in, 1) = None
                    /\ plan_in["analysis_type"] \in ALLOWED_ANALYSIS_TYPES
                    /\ \A j \in 1..(i - 1) : FilterValid(j)
                    /\ plan_in["filters"][i].column \in Range(df_columns))
                   => error = "InvalidOperator"

\* C5 witness: validation failed with InvalidOperator on the second filter,
\* after a valid first one.
C5_Witness ==
    /\ pc = "invalid"
    /\ error = "InvalidOperator"
    /\ Len(plan_in["filters"]) = 2
    /\ FilterValid(1)
    /\ BadOperator(2)

----------------------------------------------------------------------------
(* Claims about execute_plan and the flow around it.                       *)

Returned == pc \in {"returned", "done"}

Focus == Get(UserIntent(plan), "focus")

TopN == TopNGet(plan["visualization"])

HasTopN == plan["visualization"].k = "dict" /\ TopN.t = "int" /\ TopN.n > 0

\* r holds the first n rows of s, all of them when s has no more than n.
IsFirstRows(r, s, n) ==
    /\ Len(r.rows) = (IF Len(s.rows) < n THEN Len(s.rows) ELSE n)
    /\ \A i \in DOMAIN r.rows : r.rows[i] = s.rows[i]
    /\ r.cols = s.cols

\* C6 as stated: with top_n = N present, the returned table is the first N
\* rows of the sorted table if and only if the focus is not "both", and
\* with the focus "both" it is the whole sorted table.
C6_FirstRowsIffNotBoth ==
    Returned /\ HasTopN =>
        /\ IsFirstRows(result_df, sorted_df, TopN.n) <=> Focus # "both"
        /\ Focus = "both" => result_df = sorted_df

\* C6 amended: with top_n = N present, the returned table is the first N
\* rows of the sorted table when the focus is not "both" and the whole
\* sorted table when it is "both"; the equivalence of the statement holds
\* when the sorted table has more than N rows.
C6_TruncationSkippedForBoth ==
    Returned /\ HasTopN =>
        /\ Focus # "both" => IsFirstRows(result_df, sorted_df, TopN.n)
        /\ Focus = "both" => result_df = sorted_df
        /\ Len(sorted_df.rows) > TopN.n =>
              (IsFirstRows(result_df, sorted_df, TopN.n) <=> Focus # "both")

\* C6 witness: a table of more rows than top_n was returned whole under the
\* focus "both".
C6_Witness ==
    /\ Returned
    /\ HasTopN
    /\ Focus = "both"
    /\ Len(sorted_df.rows) > TopN.n
    /\ result_df = sorted_df

\* The index labels of the rows of a table.
Labels(t) == {t.rows[i]["_index"].n : i \in DOMAIN t.rows}

\* C7: the filters applied in any other order retain the same rows.
C7_FilterOrderIrrelevant ==
    pc = "filtered" =>
        \A perm \in Permutations(DOMAIN plan["filters"]) :
            LET out == ApplyFilters(
                           df,
                           [i \in DOMAIN plan["filters"] |->
                               plan["filters"][perm[i]]],
                           1)
            IN  out.err = "ok" => Labels(out.df) = Labels(working_df)

\* C8: with a chart type and no y, execute_plan returns only with y resolved
\* to the column of the first metric that is a column of the result; where
\* none is, it raises instead of returning.
C8_YResolvedOrError ==
    /\ pc = "returned"
    /\ Truthy(plan["visualization"])
    /\ TruthyName(Get(plan["visualization"], "type"))
    /\ Get(plan["visualization"], "y") = None
    => /\ y_axis # None
       /\ y_axis = FirstMetricColumn(plan["metrics"], result_df.cols, 1)

\* C9: after the invalid-y-axis error the caller holds the result table
\* that execute_plan had computed.
C9_ResultSurvivesChartError ==
    pc = "error_shown" /\ error = "InvalidYAxis" =>
        app_result.delivered /\ app_result.table = result_df

\* C10: an accepted plan with a falsy visualization executes without
\* raising and returns the untruncated table, no chart and the filtered
\* table.
C10_NoChartPlanExecutes ==
    ~Truthy(plan["visualization"]) =>
        /\ pc # "raised"
        /\ Returned =>
              /\ result_df = sorted_df
              /\ fig = NoFig
              /\ original_filtered_df = working_df

----------------------------------------------------------------------------
(* Claims about the grouped aggregation.                                   *)

\* Plans that vary in the group-by, the metrics and the filters, on the
\* fixed table; a relational filter leaves NaN cells in its column.
MetricsA ==
    {Metric("sum", "count"), Metric("max", "count"),
     Metric("max", "region"), Metric("count", "discount"),
     Metric("mean", "discount")}

FiltersA ==
    {<<>>, <<Filter("count", "==", Num(15))>>,
     <<Filter("discount", ">=", Num(5))>>,
     <<Filter("region", "==", Str(<<"x">>))>>}

InitAggregate ==
    \E gb \in {<<>>, <<"region">>, <<"count">>, <<"region", "count">>,
               <<"discount", "region">>},
       ms \in SeqsUpTo(MetricsA, MaxMetrics),
       fl \in FiltersA,
       vz \in {PyNone, Dict(<<>>), Viz("bar", "region", None, TopNone)} :
        Start(Plan("aggregation", fl, gb, ms, PyNone, vz), BaseTable)

SpecAggregate == InitAggregate /\ [][Next]_vars

\* The grouped mode has produced agg_df.
Grouped == pc = "aggregated" /\ Len(plan["group_by"]) > 0

\* The aggregation map execute_plan builds for the plan.
AggMap == agg_map(plan["metrics"], plan["group_by"], Len(plan["metrics"]))

\* The metrics that the exclusion leaves: those on no group_by column.
Remaining ==
    SelectSeq(plan["metrics"],
              LAMBDA m : m.column \notin Range(plan["group_by"]))

\* The row of the filtered table at position i, cut to the group_by columns.
Combination(i) ==
    [col \in Range(plan["group_by"]) |-> working_df.rows[i][col]]

\* The third part of C11: with no metric remaining, the result is the
\* distinct combinations of the group_by columns of the filtered table.
DistinctCombinations ==
    Len(Remaining) = 0 =>
        /\ agg_df.cols = plan["group_by"]
        /\ Range(agg_df.rows) = {Combination(i) : i \in DOMAIN working_df.rows}
        /\ \A i, j \in DOMAIN agg_df.rows :
              agg_df.rows[i] = agg_df.rows[j] => i = j

\* C11 as stated: the aggregation map holds no group_by column, the column
\* of each remaining metric maps to that metric's operation, and with no
\* metric remaining the result is the distinct group_by combinations.
C11_EachMetricItsOperation ==
    Grouped =>
        /\ \A j \in DOMAIN AggMap :
              AggMap[j].column \notin Range(plan["group_by"])
        /\ \A i \in DOMAIN Remaining :
              \E j \in DOMAIN AggMap : AggMap[j] = Remaining[i]
        /\ DistinctCombinations

\* What holds of the grouped aggregation beside C11: the aggregation map
\* holds no group_by column, it holds each
\* column of a remaining metric once, mapped to the operation of the last
\* remaining metric on that column, the result has the group_by columns and
\* then the columns of the map, and with no metric remaining the result is
\* the distinct group_by combinations.
C11_NoGroupKeyAggregated ==
    Grouped =>
        /\ \A j \in DOMAIN AggMap :
              AggMap[j].column \notin Range(plan["group_by"])
        /\ {AggMap[j].column : j \in DOMAIN AggMap}
              = {Remaining[i].column : i \in DOMAIN Remaining}
        /\ \A j, k \in DOMAIN AggMap :
              AggMap[j].column = AggMap[k].column => j = k
        /\ \A j \in DOMAIN AggMap :
              \E i \in DOMAIN Remaining :
                 /\ Remaining[i] = AggMap[j]
                 /\ \A k \in DOMAIN Remaining :
                       Remaining[k].column = AggMap[j].column => k <= i
        /\ agg_df.cols
              = plan["group_by"] \o [j \in DOMAIN AggMap |-> AggMap[j].column]
        /\ DistinctCombinations

============================================================================
